---- MODULE Spec2Model ----
(***************************************************************************)
(* mzn-bench analysis: compare_configurations / PerformanceChanges.__str__ *)
(* (analyse_changes.py) and report_status (report_status.py).              *)
(*                                                                         *)
(* Floats are modelled exactly: a float is a record [nan, v] with v an     *)
(* integer; a relative change is a fraction [nan, n, d]; a threshold       *)
(* (time_delta, obj_delta) is an integer number of percent.                *)
(***************************************************************************)
EXTENDS Integers, Sequences, FiniteSets, TLC

VARIABLES
    pc,           \* position of the running call
    table,        \* rows of the statistics file read so far, in file order
    from_conf, to_conf, time_delta, obj_delta,   \* arguments of compare_configurations
    from_stats,   \* dict (model, data_file) -> (status, time, objective, method)
    to_stats,     \* dict (model, data_file) -> (status, time, objective)
    todo,         \* keys of from_stats the classification loop has not visited yet
    changes,      \* the PerformanceChanges under construction / returned
    output,       \* what PerformanceChanges.__str__ rendered
    per_problem, per_model, per_instance, avg,   \* arguments of report_status
    keys,         \* report_status: header names of the group key
    seen_status,  \* report_status: set of statuses seen
    rtable,       \* report_status: dict group key -> (status -> list of values)
    report        \* report_status: what is handed to tabulate (headers, rows)

vars == <<pc, table, from_conf, to_conf, time_delta, obj_delta, from_stats, to_stats,
          todo, changes, output, per_problem, per_model, per_instance, avg, keys,
          seen_status, rtable, report>>

cmpVars == <<from_conf, to_conf, time_delta, obj_delta, from_stats, to_stats, todo,
             changes, output>>
repVars == <<per_problem, per_model, per_instance, avg, keys, seen_status, rtable, report>>

---------------------------------------------------------------------------
(* Bounds *)
MaxRows == 3        \* rows of the statistics file (comparison)
MaxObj == 3         \* entries of obj_changes / time_changes handed to __str__
MaxReportRows == 2  \* rows of the statistics file (report)

None == "None"

---------------------------------------------------------------------------
(* Floats *)
F(n) == [nan |-> FALSE, v |-> n]
NaN == [nan |-> TRUE, v |-> 0]

\* float(text) for the numeric texts that occur in the modelled files
ParseFloat(s) ==
    CASE s = "0" -> F(0)
      [] s = "5" -> F(5)
      [] s = "10" -> F(10)
      [] s = "15" -> F(15)
      [] s = "20" -> F(20)

\* float(0 if row["time"] == "" else row["time"])
TimeOf(s) == IF s = "" THEN F(0) ELSE ParseFloat(s)

\* float(math.nan if row["objective"] == "" else row["objective"])
ObjOf(s) == IF s = "" THEN NaN ELSE ParseFloat(s)

Abs(n) == IF n < 0 THEN -n ELSE n

\* x / y raises ZeroDivisionError exactly when y == 0.0 (also for x = nan)
DivRaises(a, b) == ~b.nan /\ b.v = 0

\* (b - a) / a, as an exact fraction; nan when an operand is nan
RelChange(a, b) ==
    IF a.nan \/ b.nan THEN [nan |-> TRUE, n |-> 0, d |-> 1]
    ELSE [nan |-> FALSE, n |-> b.v - a.v, d |-> a.v]

\* the comparison of lines 156 and 160 with >= in place of >
AbsExceedsOrEqual(c, delta) == ~c.nan /\ Abs(c.n) * 100 >= delta * Abs(c.d)

\* abs(change) > delta, delta given in percent; a comparison with nan is False
AbsExceeds(c, delta) == ~c.nan /\ Abs(c.n) * 100 > delta * Abs(c.d)

---------------------------------------------------------------------------
(* Ordered dictionaries: a sequence of [key, val] entries in insertion order *)
DictKeys(d) == [i \in 1..Len(d) |-> d[i].key]
DictHas(d, k) == \E i \in 1..Len(d) : d[i].key = k
DictGet(d, k) == d[CHOOSE i \in 1..Len(d) : d[i].key = k].val
\* d[k] = v : an existing key keeps its position and takes the new value
DictSet(d, k, v) ==
    IF DictHas(d, k)
    THEN [i \in 1..Len(d) |-> IF d[i].key = k THEN [key |-> k, val |-> v] ELSE d[i]]
    ELSE Append(d, [key |-> k, val |-> v])

---------------------------------------------------------------------------
(* compare_configurations *)

Row(c, m, d, st, t, o, me) ==
    [configuration |-> c, model |-> m, data_file |-> d, problem |-> "p1",
     status |-> st, time |-> t, objective |-> o, method |-> me]

Confs == {"confA", "confB"}
K1 == <<"m1", "d1">>
K2 == <<"m2", "d2">>

\* (status, time, objective, method) of the modelled runs
Outcomes ==
    { <<"UNKNOWN", "", "", "minimize">>,
      <<"OPTIMAL_SOLUTION", "10", "5", "minimize">>,
      <<"OPTIMAL_SOLUTION", "", "5", "minimize">>,
      <<"SATISFIED", "15", "", "satisfy">>,
      <<"SATISFIED", "10", "10", "maximize">>,
      <<"SATISFIED", "15", "20", "minimize">>,
      <<"SATISFIED", "10", "0", "minimize">> }

Outcomes2 ==
    { <<"OPTIMAL_SOLUTION", "10", "5", "minimize">>,
      <<"SATISFIED", "10", "10", "maximize">> }

\* the rows a statistics file may hold
CmpRows ==
    { Row(c, K1[1], K1[2], o[1], o[2], o[3], o[4]) : c \in Confs, o \in Outcomes }
    \cup { Row(c, K2[1], K2[2], o[1], o[2], o[3], o[4]) : c \in Confs, o \in Outcomes2 }
    \cup { Row("confC", K1[1], K1[2], "SATISFIED", "10", "10", "maximize") }

\* (to_conf, time_delta, obj_delta) of the modelled calls; from_conf is "confA"
\* and the thresholds are in percent
CallArgs == { <<"confB", 0, 50>>, <<"confB", 50, 0>>, <<"confA", 50, 50>> }

RowKey(row) == <<row.model, row.data_file>>

\* lines 131-136
FromVal(row) == <<row.status, TimeOf(row.time), ObjOf(row.objective), row.method>>
\* lines 138-142
ToVal(row) == <<row.status, TimeOf(row.time), ObjOf(row.objective)>>

\* the from side of the scan when a repeated key keeps its first row
ScanFromKeepFirst(fs, ts, row, fc, tc) ==
    IF row.configuration = fc
    THEN IF DictHas(fs, RowKey(row)) THEN fs ELSE DictSet(fs, RowKey(row), FromVal(row))
    ELSE fs

\* the body of "for row in reader" on from_stats (lines 130-136)
ScanFrom(fs, ts, row, fc, tc) ==
    IF row.configuration = fc THEN DictSet(fs, RowKey(row), FromVal(row)) ELSE fs

\* the body of "for row in reader" on to_stats (lines 130, 137-142)
ScanTo(fs, ts, row, fc, tc) ==
    IF row.configuration = fc THEN ts
    ELSE IF row.configuration = tc THEN DictSet(ts, RowKey(row), ToVal(row))
    ELSE ts

\* PerformanceChanges(time_delta, obj_delta)
NewChanges(td, od) ==
    [time_delta |-> td, obj_delta |-> od, status_changes |-> <<>>,
     time_changes |-> <<>>, obj_changes |-> <<>>, missing_instances |-> <<>>]

\* changes.status_changes[change].append(key) on the defaultdict(list)
StatusAppend(sc, change, key) ==
    IF DictHas(sc, change)
    THEN DictSet(sc, change, Append(DictGet(sc, change), key))
    ELSE DictSet(sc, change, <<key>>)

\* the test of line 150 with == in place of !=
StatusDiffersInverted(fv, tv) == fv[1] = tv[1]

\* line 150
StatusDiffers(fv, tv) == fv[1] # tv[1]

\* lines 152-154
IsTimeCase(fv) ==
    fv[1] = "OPTIMAL_SOLUTION" \/ (fv[1] = "SATISFIED" /\ fv[4] = "satisfy")

\* line 158
IsObjCase(fv) == fv[1] = "SATISFIED" /\ fv[4] # "satisfy"

\* the body of the classification loop raises ZeroDivisionError (lines 155, 159)
ClassifyRaises(key, fv, ts) ==
    /\ DictHas(ts, key)
    /\ ~StatusDiffers(fv, DictGet(ts, key))
    /\ \/ IsTimeCase(fv) /\ DivRaises(DictGet(ts, key)[2], fv[2])
       \/ ~IsTimeCase(fv) /\ IsObjCase(fv) /\ DivRaises(DictGet(ts, key)[3], fv[3])

\* the loop body with "if" in place of the "elif" of line 152
ClassifyFallThrough(ch, key, fv, ts) ==
    IF ~DictHas(ts, key)
    THEN [ch EXCEPT !.missing_instances = Append(@, key)]
    ELSE LET tv == DictGet(ts, key)
             c1 == IF StatusDiffers(fv, tv)
                   THEN [ch EXCEPT !.status_changes = StatusAppend(@, <<fv[1], tv[1]>>, key)]
                   ELSE ch
         IN IF IsTimeCase(fv) /\ ~DivRaises(tv[2], fv[2])
               /\ AbsExceeds(RelChange(fv[2], tv[2]), ch.time_delta)
            THEN [c1 EXCEPT !.time_changes = Append(@, <<key[1], key[2], fv[2], tv[2]>>)]
            ELSE c1

\* the body of the classification loop when it does not raise (lines 147-163)
Classify(ch, key, fv, ts) ==
    IF ~DictHas(ts, key)
    THEN [ch EXCEPT !.missing_instances = Append(@, key)]
    ELSE LET tv == DictGet(ts, key) IN
         IF StatusDiffers(fv, tv)
         THEN [ch EXCEPT !.status_changes = StatusAppend(@, <<fv[1], tv[1]>>, key)]
         ELSE IF IsTimeCase(fv)
         THEN IF AbsExceeds(RelChange(fv[2], tv[2]), ch.time_delta)
              THEN [ch EXCEPT !.time_changes = Append(@, <<key[1], key[2], fv[2], tv[2]>>)]
              ELSE ch
         ELSE IF IsObjCase(fv)
         THEN IF AbsExceeds(RelChange(fv[3], tv[3]), ch.obj_delta)
              THEN [ch EXCEPT !.obj_changes =
                       Append(@, <<key[1], key[2], fv[3], tv[3], fv[4] = "maximize">>)]
              ELSE ch
         ELSE ch

\* how a call ends: with a returned value, or with ZeroDivisionError raised
Raised == [raised |-> TRUE]
Returned(ch) == [raised |-> FALSE, value |-> ch]

\* the whole scan of lines 127-142 on a table
RECURSIVE ScanAll(_, _, _, _, _)
ScanAll(tbl, fc, tc, fs, ts) ==
    IF tbl = <<>> THEN [from_stats |-> fs, to_stats |-> ts]
    ELSE ScanAll(Tail(tbl), fc, tc,
                 ScanFrom(fs, ts, Head(tbl), fc, tc), ScanTo(fs, ts, Head(tbl), fc, tc))

\* the whole loop of lines 146-163
RECURSIVE ClassifyAll(_, _, _, _)
ClassifyAll(ks, fs, ts, ch) ==
    IF ks = <<>> THEN Returned(ch)
    ELSE IF ClassifyRaises(Head(ks), DictGet(fs, Head(ks)), ts) THEN Raised
    ELSE ClassifyAll(Tail(ks), fs, ts, Classify(ch, Head(ks), DictGet(fs, Head(ks)), ts))

\* compare_configurations(statistics, from_conf, to_conf, time_delta, obj_delta):
\* the returned PerformanceChanges, or Raised
compare_configurations(tbl, fc, tc, td, od) ==
    LET st == ScanAll(tbl, fc, tc, <<>>, <<>>)
    IN ClassifyAll(DictKeys(st.from_stats), st.from_stats, st.to_stats, NewChanges(td, od))

NoReport ==
    /\ per_problem = FALSE /\ per_model = FALSE /\ per_instance = FALSE /\ avg = None
    /\ keys = <<>> /\ seen_status = {} /\ rtable = <<>> /\ report = None

\* compare_configurations is called: lines 121-125
Init ==
    /\ pc = "scan"
    /\ table = <<>>
    /\ from_conf = "confA"
    /\ \E a \in CallArgs : to_conf = a[1] /\ time_delta = a[2] /\ obj_delta = a[3]
    /\ from_stats = <<>>
    /\ to_stats = <<>>
    /\ todo = <<>>
    /\ changes = None
    /\ output = None
    /\ NoReport

\* one iteration of "for row in reader" (lines 129-142)
ReadRow ==
    /\ pc = "scan"
    /\ Len(table) < MaxRows
    /\ \E row \in CmpRows :
         /\ table' = Append(table, row)
         /\ from_stats' = ScanFrom(from_stats, to_stats, row, from_conf, to_conf)
         /\ to_stats' = ScanTo(from_stats, to_stats, row, from_conf, to_conf)
    /\ UNCHANGED <<pc, from_conf, to_conf, time_delta, obj_delta, todo, changes, output>>
    /\ UNCHANGED repVars

\* the reader is exhausted: line 144 and entry of the loop of line 146
EndScan ==
    /\ pc = "scan"
    /\ pc' = "classify"
    /\ changes' = NewChanges(time_delta, obj_delta)
    /\ todo' = DictKeys(from_stats)
    /\ UNCHANGED <<table, from_conf, to_conf, time_delta, obj_delta, from_stats, to_stats,
                   output>>
    /\ UNCHANGED repVars

\* one iteration of "for key, from_val in from_stats.items()" (lines 146-163)
ClassifyKey ==
    /\ pc = "classify"
    /\ todo # <<>>
    /\ LET key == Head(todo)
           fv == DictGet(from_stats, key)
       IN IF ClassifyRaises(key, fv, to_stats)
          THEN /\ pc' = "raised"
               /\ UNCHANGED <<changes, todo>>
          ELSE /\ changes' = Classify(changes, key, fv, to_stats)
               /\ todo' = Tail(todo)
               /\ pc' = pc
    /\ UNCHANGED <<table, from_conf, to_conf, time_delta, obj_delta, from_stats, to_stats,
                   output>>
    /\ UNCHANGED repVars

\* line 165
Return ==
    /\ pc = "classify"
    /\ todo = <<>>
    /\ pc' = "returned"
    /\ UNCHANGED <<table>>
    /\ UNCHANGED cmpVars
    /\ UNCHANGED repVars

Next == ReadRow \/ EndScan \/ ClassifyKey \/ Return

Spec == Init /\ [][Next]_vars

---------------------------------------------------------------------------
(* Reading a PerformanceChanges *)
AllKeys == {K1, K2}
Started == pc \in {"classify", "returned", "raised"}

MissingHas(ch, k) == \E i \in 1..Len(ch.missing_instances) : ch.missing_instances[i] = k
TimeHas(ch, k) ==
    \E i \in 1..Len(ch.time_changes) : <<ch.time_changes[i][1], ch.time_changes[i][2]>> = k
ObjHas(ch, k) ==
    \E i \in 1..Len(ch.obj_changes) : <<ch.obj_changes[i][1], ch.obj_changes[i][2]>> = k
StatusHasUnder(ch, change, k) ==
    \E j \in 1..Len(ch.status_changes) :
        /\ ch.status_changes[j].key = change
        /\ \E i \in 1..Len(ch.status_changes[j].val) : ch.status_changes[j].val[i] = k
StatusHas(ch, k) ==
    \E j \in 1..Len(ch.status_changes) :
        \E i \in 1..Len(ch.status_changes[j].val) : ch.status_changes[j].val[i] = k

\* number of places of the four containers that hold key k
Occurrences(ch, k) ==
    Cardinality({i \in 1..Len(ch.missing_instances) : ch.missing_instances[i] = k})
    + Cardinality({i \in 1..Len(ch.time_changes) :
                      <<ch.time_changes[i][1], ch.time_changes[i][2]>> = k})
    + Cardinality({i \in 1..Len(ch.obj_changes) :
                      <<ch.obj_changes[i][1], ch.obj_changes[i][2]>> = k})
    + Cardinality({p \in (1..Len(ch.status_changes)) \X (1..MaxRows + 1) :
                      /\ p[2] <= Len(ch.status_changes[p[1]].val)
                      /\ ch.status_changes[p[1]].val[p[2]] = k})

\* the table has a row of configuration c for key k
HasRow(c, k) == \E i \in 1..Len(table) : table[i].configuration = c /\ RowKey(table[i]) = k

---------------------------------------------------------------------------
\* C1: at every step of the classification loop and in the returned
\* PerformanceChanges, each instance key occurs in at most one of the four
\* containers, and at most once there.
C1_KeyInAtMostOneContainer ==
    Started => \A k \in AllKeys : Occurrences(changes, k) <= 1

\* a returned result with one key missing and the other under a status change
C1_Witness ==
    /\ pc = "returned"
    /\ Len(changes.missing_instances) = 1
    /\ Len(changes.status_changes) = 1

\* C2: after the return, missing_instances holds exactly the keys with a row
\* under from_conf and no row under to_conf, and those keys are in no other
\* container.
C2_MissingExactlyFromWithoutTo ==
    pc = "returned" =>
        \A k \in AllKeys :
            /\ MissingHas(changes, k) <=> (HasRow(from_conf, k) /\ ~HasRow(to_conf, k))
            /\ MissingHas(changes, k) =>
                 ~StatusHas(changes, k) /\ ~TimeHas(changes, k) /\ ~ObjHas(changes, k)

\* C3: for a key in both from_stats and to_stats of a returned comparison, the
\* key is listed in status_changes iff the two statuses differ, then under the
\* pair (from_status, to_status) only and in neither time_changes nor
\* obj_changes; at every step a listed key has differing statuses and no pair
\* (s, s) is a key of status_changes.
C3_StatusChangeIffStatusesDiffer ==
    /\ pc = "returned" =>
         \A k \in AllKeys :
            (DictHas(from_stats, k) /\ DictHas(to_stats, k)) =>
                LET fs == DictGet(from_stats, k)[1]
                    ts == DictGet(to_stats, k)[1]
                IN /\ StatusHas(changes, k) <=> fs # ts
                   /\ StatusHas(changes, k) =>
                        /\ StatusHasUnder(changes, <<fs, ts>>, k)
                        /\ \A j \in 1..Len(changes.status_changes) :
                              StatusHasUnder(changes, changes.status_changes[j].key, k)
                                 => changes.status_changes[j].key = <<fs, ts>>
                        /\ ~TimeHas(changes, k) /\ ~ObjHas(changes, k)
    /\ Started =>
         /\ \A j \in 1..Len(changes.status_changes) :
               changes.status_changes[j].key[1] # changes.status_changes[j].key[2]
         /\ \A k \in AllKeys :
               StatusHas(changes, k) =>
                   /\ DictHas(from_stats, k) /\ DictHas(to_stats, k)
                   /\ DictGet(from_stats, k)[1] # DictGet(to_stats, k)[1]

\* a returned result that lists a key under a status change
C3_Witness ==
    /\ pc = "returned"
    /\ StatusHasUnder(changes, <<"UNKNOWN", "OPTIMAL_SOLUTION">>, K1)

\* C4: comparing a configuration against itself with thresholds > 0, on a
\* table that has rows of it, returns four empty containers.
C4_SelfComparisonIsEmpty ==
    (/\ pc = "returned"
     /\ from_conf = to_conf
     /\ time_delta > 0 /\ obj_delta > 0
     /\ \E i \in 1..Len(table) : table[i].configuration = from_conf)
    => /\ changes.status_changes = <<>>
       /\ changes.missing_instances = <<>>
       /\ changes.time_changes = <<>>
       /\ changes.obj_changes = <<>>

\* |to - from| / |from| > delta (delta in percent), False when a value is nan
RelativeChangeAbove(f, t, delta) ==
    ~f.nan /\ ~t.nan /\ Abs(t.v - f.v) * 100 > delta * Abs(f.v)

NonZero(f) == f.nan \/ f.v # 0

\* C5: for a key on both sides with identical status and a non-zero from
\* value, in the returned result: in the time case (OPTIMAL_SOLUTION, or
\* SATISFIED with method "satisfy") the key is in time_changes, as (model,
\* data_file, from_time, to_time), iff |to_time - from_time| / |from_time| >
\* time_delta, and never in obj_changes; in the objective case (SATISFIED,
\* other method) it is in obj_changes, as (model, data_file, from_obj, to_obj,
\* method = "maximize"), iff |to_obj - from_obj| / |from_obj| > obj_delta, and
\* never in time_changes; for any other status it is in no container.  After
\* every step of the loop, an entry of time_changes or obj_changes is such a
\* key with the relative change above the threshold.
C5_TimeAndObjectiveChanges ==
    /\ Started =>
        \A k \in AllKeys :
            (TimeHas(changes, k) \/ ObjHas(changes, k)) =>
                /\ DictHas(from_stats, k) /\ DictHas(to_stats, k)
                /\ LET fv == DictGet(from_stats, k)
                       tv == DictGet(to_stats, k)
                       timeCase == fv[1] = "OPTIMAL_SOLUTION"
                                   \/ (fv[1] = "SATISFIED" /\ fv[4] = "satisfy")
                   IN /\ fv[1] = tv[1]
                      /\ TimeHas(changes, k) =>
                            timeCase /\ RelativeChangeAbove(fv[2], tv[2], time_delta)
                      /\ ObjHas(changes, k) =>
                            /\ ~timeCase /\ fv[1] = "SATISFIED"
                            /\ RelativeChangeAbove(fv[3], tv[3], obj_delta)
    /\ pc = "returned" =>
        \A k \in AllKeys :
            (DictHas(from_stats, k) /\ DictHas(to_stats, k)) =>
                LET fv == DictGet(from_stats, k)
                    tv == DictGet(to_stats, k)
                    tentry == <<k[1], k[2], fv[2], tv[2]>>
                    oentry == <<k[1], k[2], fv[3], tv[3], fv[4] = "maximize">>
                IN fv[1] = tv[1] =>
                   IF fv[1] = "OPTIMAL_SOLUTION" \/ (fv[1] = "SATISFIED" /\ fv[4] = "satisfy")
                   THEN NonZero(fv[2]) =>
                          /\ TimeHas(changes, k) <=> RelativeChangeAbove(fv[2], tv[2], time_delta)
                          /\ TimeHas(changes, k) =>
                               \E i \in 1..Len(changes.time_changes) :
                                   changes.time_changes[i] = tentry
                          /\ ~ObjHas(changes, k)
                   ELSE IF fv[1] = "SATISFIED"
                   THEN NonZero(fv[3]) =>
                          /\ ObjHas(changes, k) <=> RelativeChangeAbove(fv[3], tv[3], obj_delta)
                          /\ ObjHas(changes, k) =>
                               \E i \in 1..Len(changes.obj_changes) :
                                   changes.obj_changes[i] = oentry
                          /\ ~TimeHas(changes, k)
                   ELSE Occurrences(changes, k) = 0

\* a returned result that records an objective change of a maximisation
C5_Witness ==
    /\ pc = "returned"
    /\ changes.obj_changes = << <<"m1", "d1", F(10), F(20), TRUE>> >>

\* C6: a zero from_time in the time branch, or a zero from_obj in the
\* objective branch, does not abort the call.
C6_ZeroDenominatorDoesNotAbort == pc # "raised"

---------------------------------------------------------------------------
(* Duplicate rows *)
SameInstance(r1, r2) == r1.configuration = r2.configuration /\ RowKey(r1) = RowKey(r2)

RECURSIVE KeepRows(_, _, _)
\* the rows of tbl at the positions i..Len(tbl) that are in the set S
KeepRows(tbl, i, S) ==
    IF i > Len(tbl) THEN <<>>
    ELSE (IF i \in S THEN <<tbl[i]>> ELSE <<>>) \o KeepRows(tbl, i + 1, S)

\* the table with all earlier duplicate rows removed
Dedup(tbl) ==
    KeepRows(tbl, 1, {i \in 1..Len(tbl) :
                         ~\E j \in (i + 1)..Len(tbl) : SameInstance(tbl[i], tbl[j])})

\* the table without the rows of other configurations
OnlyCompared(tbl) ==
    KeepRows(tbl, 1, {i \in 1..Len(tbl) : tbl[i].configuration \in {from_conf, to_conf}})

\* position of the last row of configuration c and key k
LastRow(c, k) ==
    CHOOSE i \in 1..Len(table) :
        /\ table[i].configuration = c /\ RowKey(table[i]) = k
        /\ ~\E j \in (i + 1)..Len(table) :
               table[j].configuration = c /\ RowKey(table[j]) = k

Range(q) == {q[i] : i \in 1..Len(q)}
StatusPairs(ch) ==
    {<<ch.status_changes[j].key, k>> : j \in 1..Len(ch.status_changes), k \in AllKeys}
    \cap {p \in (Range(DictKeys(ch.status_changes)) \X AllKeys) :
             StatusHasUnder(ch, p[1], p[2])}

\* the same entries in every container, in any order
SameUpToOrder(a, b) ==
    /\ a.time_delta = b.time_delta /\ a.obj_delta = b.obj_delta
    /\ Len(a.missing_instances) = Len(b.missing_instances)
    /\ Range(a.missing_instances) = Range(b.missing_instances)
    /\ Len(a.time_changes) = Len(b.time_changes)
    /\ Range(a.time_changes) = Range(b.time_changes)
    /\ Len(a.obj_changes) = Len(b.obj_changes)
    /\ Range(a.obj_changes) = Range(b.obj_changes)
    /\ StatusPairs(a) = StatusPairs(b)
    /\ \A k \in AllKeys : Occurrences(a, k) = Occurrences(b, k)

\* how the call of the run ended
Result == IF pc = "raised" THEN Raised ELSE Returned(changes)

---------------------------------------------------------------------------
(* PerformanceChanges.__str__ *)

\* lines 29-38
pos_status_changes ==
    { <<"ERROR", "SATISFIED">>, <<"ERROR", "UNSATISFIABLE">>,
      <<"ERROR", "OPTIMAL_SOLUTION">>, <<"ERROR", "UNKNOWN">>,
      <<"UNKNOWN", "SATISFIED">>, <<"UNKNOWN", "UNSATISFIABLE">>,
      <<"UNKNOWN", "OPTIMAL_SOLUTION">>, <<"SATISFIED", "OPTIMAL_SOLUTION">> }

\* lines 40-45
conflicting_status_changes ==
    { <<"UNSATISFIABLE", "SATISFIED">>, <<"SATISFIED", "UNSATISFIABLE">>,
      <<"UNSATISFIABLE", "OPTIMAL_SOLUTION">>, <<"OPTIMAL_SOLUTION", "UNSATISFIABLE">> }

\* a fraction n / d with d # 0, kept with a positive denominator
Frac(n, d) == IF d < 0 THEN [n |-> -n, d |-> -d] ELSE [n |-> n, d |-> d]
FracLess(a, b) == a.n * b.d < b.n * a.d

\* (it[3] - it[2]) / it[2] of a time_changes or obj_changes entry (0-based
\* it[2], it[3] are the from and the to value)
TimeKey(it) == Frac(it[4].v - it[3].v, it[3].v)

\* the sort key of line 108 without the factor (1 if it[4] else -1)
ObjKeyNoSign(it) == Frac(it[4].v - it[3].v, it[3].v)

\* line 108: (1 if it[4] else -1) * (it[3] - it[2]) / it[2]
ObjKey(it) == Frac((IF it[5] THEN 1 ELSE -1) * (it[4].v - it[3].v), it[3].v)

\* the entries of time_changes and of obj_changes, each with its sort key
TimeKeyed(li) == [i \in 1..Len(li) |-> [k |-> TimeKey(li[i]), it |-> li[i]]]
ObjKeyed(li) == [i \in 1..Len(li) |-> [k |-> ObjKey(li[i]), it |-> li[i]]]
Items(kl) == [i \in 1..Len(kl) |-> kl[i].it]

\* sorted(li, key=...): stable, ascending
RECURSIVE SortedAsc(_)
SortedAsc(kl) ==
    IF kl = <<>> THEN <<>>
    ELSE LET x == kl[Len(kl)]
             rest == SortedAsc(SubSeq(kl, 1, Len(kl) - 1))
             \* x goes after every element whose key is not greater than its own
             n == Cardinality({i \in 1..Len(rest) : ~FracLess(x.k, rest[i].k)})
         IN SubSeq(rest, 1, n) \o <<x>> \o SubSeq(rest, n + 1, Len(rest))

\* sorted(li, key=..., reverse=True): stable, descending
RECURSIVE SortedDesc(_)
SortedDesc(kl) ==
    IF kl = <<>> THEN <<>>
    ELSE LET x == kl[Len(kl)]
             rest == SortedDesc(SubSeq(kl, 1, Len(kl) - 1))
             n == Cardinality({i \in 1..Len(rest) : ~FracLess(rest[i].k, x.k)})
         IN SubSeq(rest, 1, n) \o <<x>> \o SubSeq(rest, n + 1, Len(rest))

RECURSIVE SumLens(_)
\* line 25
SumLens(sc) == IF sc = <<>> THEN 0 ELSE Len(Head(sc).val) + SumLens(Tail(sc))

\* the blocks of lines 51-62 whose change is in S, in dictionary order
Blocks(sc, S) == SelectSeq(sc, LAMBDA e : e.key \in S)

\* lines 82, 83, 98, 101, 108, 111 divide by the from value of every entry
StrRaises(ch) ==
    \/ \E i \in 1..Len(ch.time_changes) : ch.time_changes[i][3].v = 0
    \/ \E i \in 1..Len(ch.obj_changes) : ch.obj_changes[i][3].v = 0

\* the text of __str__, section by section (lines 24-118)
Str(ch) ==
    LET sc == ch.status_changes
        changesOf == {sc[j].key : j \in 1..Len(sc)}
        bad == Blocks(sc, conflicting_status_changes)
        pos == Blocks(sc, pos_status_changes \ conflicting_status_changes)
        neg == Blocks(sc, changesOf \ (pos_status_changes \cup conflicting_status_changes))
    IN [ n_status_changes |-> SumLens(sc),
         n_bad_status_changes |-> SumLens(bad),
         n_pos_status_changes |-> SumLens(pos),
         n_time_changes |-> Len(ch.time_changes),
         n_pos_time_changes |->
             Cardinality({i \in 1..Len(ch.time_changes) :
                             FracLess(TimeKey(ch.time_changes[i]), Frac(0, 1))}),
         n_obj_changes |-> Len(ch.obj_changes),
         n_pos_obj_changes |->
             Cardinality({i \in 1..Len(ch.obj_changes) :
                             FracLess(Frac(0, 1), ObjKey(ch.obj_changes[i]))}),
         status_lines |-> IF SumLens(sc) > 0 THEN bad \o neg \o pos ELSE <<>>,
         time_lines |-> Items(SortedDesc(TimeKeyed(ch.time_changes))),
         obj_lines |-> Items(SortedAsc(ObjKeyed(ch.obj_changes))),
         missing_lines |-> ch.missing_instances ]

\* the entries of obj_changes handed to __str__
ObjEntries ==
    { <<"m1", "d1", F(f), F(t), mx>> : f \in {0, 10, 20}, t \in {10, 20}, mx \in BOOLEAN }

RECURSIVE SeqsUpTo(_, _)
SeqsUpTo(S, n) ==
    IF n = 0 THEN {<<>>}
    ELSE SeqsUpTo(S, n - 1) \cup {Append(q, x) : q \in {r \in SeqsUpTo(S, n - 1) : Len(r) = n - 1}, x \in S}

\* the rest of the PerformanceChanges handed to __str__
OtherParts ==
    { [status_changes |-> <<>>, time_changes |-> <<>>, missing_instances |-> <<>>],
      [status_changes |-> << [key |-> <<"UNKNOWN", "OPTIMAL_SOLUTION">>, val |-> <<K1>>],
                             [key |-> <<"SATISFIED", "UNSATISFIABLE">>, val |-> <<K2>>] >>,
       time_changes |-> << <<"m1", "d1", F(10), F(15)>>, <<"m2", "d2", F(15), F(10)>> >>,
       missing_instances |-> <<>>],
      [status_changes |-> << [key |-> <<"SATISFIED", "UNKNOWN">>, val |-> <<K1>>] >>,
       time_changes |-> << <<"m1", "d1", F(0), F(15)>> >>,
       missing_instances |-> <<K2>>] }

\* a PerformanceChanges exists and str() is about to be called on it
InitStr ==
    /\ pc = "returned"
    /\ table = <<>>
    /\ from_conf = "confA" /\ to_conf = "confB" /\ time_delta = 50 /\ obj_delta = 50
    /\ from_stats = <<>> /\ to_stats = <<>> /\ todo = <<>>
    /\ \E oc \in SeqsUpTo(ObjEntries, MaxObj), o \in OtherParts :
          changes = [time_delta |-> 50, obj_delta |-> 50,
                     status_changes |-> o.status_changes,
                     time_changes |-> o.time_changes,
                     obj_changes |-> oc,
                     missing_instances |-> o.missing_instances]
    /\ output = None
    /\ NoReport

\* str(changes): lines 24-118
StrCall ==
    /\ pc = "returned"
    /\ IF StrRaises(changes)
       THEN pc' = "str_raised" /\ output' = output
       ELSE pc' = "rendered" /\ output' = Str(changes)
    /\ UNCHANGED <<table, from_conf, to_conf, time_delta, obj_delta, from_stats, to_stats,
                   todo, changes>>
    /\ UNCHANGED repVars

SpecStr == InitStr /\ [][StrCall]_vars

\* the relative change of an objective entry, with the sign flipped for the
\* maximize entries (C9 as stated) and for the minimize entries (as amended)
C9_FlippedForMaximize(it) ==
    Frac((IF it[5] THEN -1 ELSE 1) * (it[4].v - it[3].v), it[3].v)
C9_FlippedForMinimize(it) ==
    Frac((IF it[5] THEN 1 ELSE -1) * (it[4].v - it[3].v), it[3].v)

\* C9 as stated: the objective detail lines are in ascending order of the
\* relative change (to_obj - from_obj) / from_obj with the sign flipped for
\* the maximize entries.
C9_ObjLinesAscendingFlippedForMaximize ==
    pc = "rendered" =>
        \A i, j \in 1..Len(output.obj_lines) :
            i < j => ~FracLess(C9_FlippedForMaximize(output.obj_lines[j]),
                               C9_FlippedForMaximize(output.obj_lines[i]))

\* C9 amended: the objective detail lines are the entries of obj_changes, in
\* ascending order of the relative change (to_obj - from_obj) / from_obj with
\* the sign flipped for the minimize entries (kept for the maximize ones).
C9_ObjLinesAscendingFlippedForMinimize ==
    pc = "rendered" =>
        /\ Len(output.obj_lines) = Len(changes.obj_changes)
        /\ \A e \in Range(changes.obj_changes) :
              Cardinality({i \in 1..Len(output.obj_lines) : output.obj_lines[i] = e})
              = Cardinality({i \in 1..Len(changes.obj_changes) : changes.obj_changes[i] = e})
        /\ \A i, j \in 1..Len(output.obj_lines) :
              i < j => ~FracLess(C9_FlippedForMinimize(output.obj_lines[j]),
                                 C9_FlippedForMinimize(output.obj_lines[i]))

\* a rendered text whose objective lines had to be reordered and mix
\* maximize and minimize entries
C9_Witness ==
    /\ pc = "rendered"
    /\ Len(output.obj_lines) >= 2
    /\ output.obj_lines # changes.obj_changes
    /\ \E i, j \in 1..Len(output.obj_lines) :
          output.obj_lines[i][5] /\ ~output.obj_lines[j][5]

---------------------------------------------------------------------------
(* report_status *)

\* (model, problem, data_file) of the instances in the reported file; the two
\* data files have the same file name
Instances == { <<"m1", "p1", "x/d1.dzn">>, <<"m2", "p2", "y/d1.dzn">> }

\* Path(data_file).name
PathName(d) ==
    CASE d = "x/d1.dzn" -> "d1.dzn"
      [] d = "y/d1.dzn" -> "d1.dzn"

\* the rows the reported statistics file may hold
ReportRows ==
    { [configuration |-> c, model |-> i[1], data_file |-> i[3], problem |-> i[2],
       status |-> st, time |-> t, objective |-> "", method |-> "satisfy"] :
         c \in {"c1", "c2"}, i \in Instances, st \in {"SATISFIED", "UNKNOWN"},
         t \in {"", "5", "15"} }

\* lines 11-20
HeaderKeys(pp, pm, pi) ==
    <<"configuration">>
    \o (IF pm THEN <<"model">> ELSE <<>>)
    \o (IF pp THEN <<"problem">> ELSE <<>>)
    \o (IF pm THEN <<"model">> ELSE <<>>)
    \o (IF pi THEN <<"instance">> ELSE <<>>)

\* lines 28-34 and 37
GroupKey(row, pp, pm, pi) ==
    <<row.configuration>>
    \o (IF pm THEN <<row.model>> ELSE <<>>)
    \o (IF pp THEN <<row.problem>> ELSE <<>>)
    \o (IF pi THEN <<PathName(row.data_file)>> ELSE <<>>)

\* lines 39-40: row.get(avg, 0), then float(0 if avg_value == "" else avg_value)
AvgValue(row, a) ==
    IF a = "time" THEN (IF row.time = "" THEN F(0) ELSE ParseFloat(row.time))
    ELSE F(0)

\* lines 41-46 with the list replaced instead of appended to
TableAddReplace(t, key, st, v) ==
    IF ~DictHas(t, key) THEN DictSet(t, key, DictSet(<<>>, st, <<v>>))
    ELSE DictSet(t, key, DictSet(DictGet(t, key), st, <<v>>))

\* lines 41-46
TableAdd(t, key, st, v) ==
    IF ~DictHas(t, key) THEN DictSet(t, key, DictSet(<<>>, st, <<v>>))
    ELSE IF ~DictHas(DictGet(t, key), st)
    THEN DictSet(t, key, DictSet(DictGet(t, key), st, <<v>>))
    ELSE DictSet(t, key, DictSet(DictGet(t, key), st,
                                 Append(DictGet(DictGet(t, key), st), v)))

\* the status names in ascending lexicographic order
StatusOrder == <<"ERROR", "OPTIMAL_SOLUTION", "SATISFIED", "UNKNOWN", "UNSATISFIABLE">>

\* lines 48-49: list(seen_status), then sort(reverse=True)
SortedStatus(seen) ==
    LET rev == [i \in 1..Len(StatusOrder) |-> StatusOrder[Len(StatusOrder) + 1 - i]]
    IN SelectSeq(rev, LAMBDA st : st \in seen)

RECURSIVE SumOf(_)
SumOf(vals) == IF vals = <<>> THEN 0 ELSE Head(vals).v + SumOf(Tail(vals))

\* f"{x:.2f}" of x = total / n, as a number of hundredths (total >= 0, n > 0)
TwoDecimals(total, n) == (200 * total + n) \div (2 * n)

\* lines 55-57: the cell of status st in the row of one group
Cell(row, st, a) ==
    IF a # None /\ DictHas(row, st)
    THEN [count |-> Len(DictGet(row, st)), has_mean |-> TRUE,
          mean |-> TwoDecimals(SumOf(DictGet(row, st)), Len(DictGet(row, st)))]
    ELSE [count |-> IF DictHas(row, st) THEN Len(DictGet(row, st)) ELSE 0,
          has_mean |-> FALSE, mean |-> 0]

\* lines 51-64: what is handed to tabulate
Tabulated(t, seen, ks, a) ==
    LET sts == SortedStatus(seen)
    IN [headers |-> ks \o sts,
        rows |-> [i \in 1..Len(t) |->
                     t[i].key \o [j \in 1..Len(sts) |-> Cell(t[i].val, sts[j], a)]]]

NoCompare ==
    /\ from_conf = None /\ to_conf = None /\ time_delta = 0 /\ obj_delta = 0
    /\ from_stats = <<>> /\ to_stats = <<>> /\ todo = <<>> /\ changes = None
    /\ output = None

\* report_status is called
InitReport ==
    /\ pc = "report_start"
    /\ table = <<>>
    /\ per_problem \in BOOLEAN /\ per_model \in BOOLEAN /\ per_instance \in BOOLEAN
    /\ avg \in {None, "time"}
    /\ keys = <<>> /\ seen_status = {} /\ rtable = <<>> /\ report = None
    /\ NoCompare

\* lines 11-24
BuildKeys ==
    /\ pc = "report_start"
    /\ pc' = "report_scan"
    /\ keys' = HeaderKeys(per_problem, per_model, per_instance)
    /\ seen_status' = {}
    /\ rtable' = <<>>
    /\ UNCHANGED <<table, per_problem, per_model, per_instance, avg, report>>
    /\ UNCHANGED cmpVars

\* one iteration of "for row in reader" (lines 27-46)
ReportRow ==
    /\ pc = "report_scan"
    /\ Len(table) < MaxReportRows
    /\ \E row \in ReportRows :
         /\ table' = Append(table, row)
         /\ seen_status' = seen_status \cup {row.status}
         /\ rtable' = TableAdd(rtable, GroupKey(row, per_problem, per_model, per_instance),
                               row.status, AvgValue(row, avg))
    /\ UNCHANGED <<pc, per_problem, per_model, per_instance, avg, keys, report>>
    /\ UNCHANGED cmpVars

\* the reader is exhausted: lines 48-64
Tabulate ==
    /\ pc = "report_scan"
    /\ pc' = "reported"
    /\ report' = Tabulated(rtable, seen_status, keys, avg)
    /\ UNCHANGED <<table, per_problem, per_model, per_instance, avg, keys, seen_status,
                   rtable>>
    /\ UNCHANGED cmpVars

NextReport == BuildKeys \/ ReportRow \/ Tabulate

SpecReport == InitReport /\ [][NextReport]_vars

\* C7: the header list is configuration, then model, problem, instance, each
\* at most once and only when its flag is set, in that order, then the status
\* names; every output row has as many cells as there are header columns.
C7_HeaderMatchesRows ==
    /\ pc \in {"report_scan", "reported"} =>
          keys = <<"configuration">>
                 \o (IF per_model THEN <<"model">> ELSE <<>>)
                 \o (IF per_problem THEN <<"problem">> ELSE <<>>)
                 \o (IF per_instance THEN <<"instance">> ELSE <<>>)
    /\ pc = "reported" =>
          /\ report.headers = keys \o SortedStatus(seen_status)
          /\ \A i \in 1..Len(report.rows) : Len(report.rows[i]) = Len(report.headers)

\* the rows of the file with group key g
RowsOfGroup(g) ==
    {i \in 1..Len(table) :
        GroupKey(table[i], per_problem, per_model, per_instance) = g}
GroupsOfTable ==
    {GroupKey(table[i], per_problem, per_model, per_instance) : i \in 1..Len(table)}
RECURSIVE C8_SumAvg(_)
C8_SumAvg(S) ==
    IF S = {} THEN 0
    ELSE LET i == CHOOSE x \in S : TRUE
         IN (IF avg = "time" /\ table[i].time # "" THEN ParseFloat(table[i].time).v ELSE 0)
            + C8_SumAvg(S \ {i})

\* C8: one output row per distinct group key of the file; the cell of each
\* seen status s in the row of group g counts the rows of the file with group
\* g and status s, so all counts sum to the number of rows; the cell is the
\* plain count when no average field is requested or the count is 0, and
\* otherwise carries the mean (two decimals) of the average field over
\* exactly those rows, an empty field counting as 0.
C8_CountsAndMeans ==
    pc = "reported" =>
        LET n == 1 + (IF per_model THEN 1 ELSE 0) + (IF per_problem THEN 1 ELSE 0)
                   + (IF per_instance THEN 1 ELSE 0)
            sts == SortedStatus({table[i].status : i \in 1..Len(table)})
            keyOf(r) == SubSeq(r, 1, n)
            cellOf(r, j) == r[n + j]
            rowsOf(g, st) == {i \in RowsOfGroup(g) : table[i].status = st}
        IN /\ Len(report.rows) = Cardinality(GroupsOfTable)
           /\ {keyOf(report.rows[i]) : i \in 1..Len(report.rows)} = GroupsOfTable
           /\ \A i \in 1..Len(report.rows) :
                 /\ Len(report.rows[i]) = n + Len(sts)
                 /\ \A j \in 1..Len(sts) :
                       LET c == cellOf(report.rows[i], j)
                           S == rowsOf(keyOf(report.rows[i]), sts[j])
                       IN /\ c.count = Cardinality(S)
                          /\ c.has_mean <=> (avg # None /\ Cardinality(S) > 0)
                          /\ c.has_mean =>
                                /\ 2 * (100 * C8_SumAvg(S) - c.mean * c.count) <= c.count
                                /\ 2 * (c.mean * c.count - 100 * C8_SumAvg(S)) < c.count
           /\ LET cells == {<<i, j>> \in (1..Len(report.rows)) \X (1..Len(sts)) : TRUE}
                  RECURSIVE Total(_)
                  Total(C) == IF C = {} THEN 0
                              ELSE LET x == CHOOSE y \in C : TRUE
                                   IN cellOf(report.rows[x[1]], x[2]).count + Total(C \ {x})
              IN Total(cells) = Len(table)

\* the report of two rows of one group with status SATISFIED and times 5 and
\* 15, averaged over time: the cell reads "2 (10.00s)"
C8_Witness ==
    /\ pc = "reported"
    /\ avg = "time"
    /\ ~per_model /\ ~per_problem /\ ~per_instance
    /\ Len(table) = 2
    /\ table[1].time = "5" /\ table[2].time = "15"
    /\ table[1].status = "SATISFIED" /\ table[2].status = "SATISFIED"
    /\ report.rows = << <<"c1", [count |-> 2, has_mean |-> TRUE, mean |-> 1000]>> >>

====
